---- MODULE Spec2Model ----
(***************************************************************************)
(* goshare: a local-network HTTP file-sharing daemon.                      *)
(*                                                                         *)
(* The model follows internal/webserver (the package cmd/root.go imports): *)
(* auth.go (secret key, validateKey, validateKeyCookie, requireKey),       *)
(* utils.go (getUniqueFilename), middleware.go (loggingMiddleware) and     *)
(* webserver.go (Run: route registration and the handlers).                *)
(* getSharedFiles and getUploadsFiles, which the root handler calls, are    *)
(* modelled from the copy of package webserver that holds them.            *)
(*                                                                         *)
(* A file name is a sequence of one-character strings, so that             *)
(* filepath.Ext, the slicing filename[:len-len(ext)] and                   *)
(* fmt.Sprintf("%s.%d%s") are computed and not assumed.                    *)
(***************************************************************************)
EXTENDS Integers, Sequences, FiniteSets, TLC

VARIABLES
    secretKey,   \* auth.go: var secretKey string
    shareKind,   \* what Run found at sharePath: "none", "file" or "dir"
    dirExists,   \* whether the uploads directory exists
    files,       \* the uploads directory: file name -> contents
    pc,          \* per request goroutine: where its handler stands
    req,         \* per request goroutine: the request it is serving
    counter,     \* getUniqueFilename's local counter
    resolved,    \* the /upload handler's local uniqueFilename
    resp,        \* per request goroutine: the response written
    disturbed,   \* another goroutine changed the directory since this upload's first existence check
    clobbered,   \* os.Create of this upload truncated a file that existed
    jar,         \* the cookie a browser keeps from the server's last Set-Cookie
    sharePath,   \* Run's sharePath argument: "" when nothing is shared
    shareNow,    \* what is at sharePath at present: "absent", "file" or "dir"
    notDir,      \* the uploads path exists and is not a directory
    oldKeys,     \* the secret keys of the earlier processes
    uploadsDir,  \* Run's uploadsDir argument: "" when --uploads-dir is not given
    phase,       \* the process: "init" (Run entered), "serving" or "fatal" (log.Fatalf)
    madeDir,     \* os.MkdirAll of this upload created the uploads directory
    log          \* the records loggingMiddleware wrote, in the runs that keep them

vars == <<secretKey, shareKind, dirExists, files, pc, req, counter, resolved,
          resp, disturbed, clobbered, jar, sharePath, shareNow, notDir, oldKeys,
          uploadsDir, phase, madeDir, log>>

(***************************************************************************)
(* Bounds                                                                  *)
(***************************************************************************)
\* Longest file name the filesystem accepts (NAME_MAX, 255 on Linux, scaled
\* down): os.Stat and os.Create fail with ENAMETOOLONG beyond it.
NameMax == 5
\* The probe loop of getUniqueFilename has no upper bound; the model follows
\* it up to this counter.
MaxCounter == 7
\* Number of files the uploads directory may hold in the server runs.
MaxFiles == 3
\* base.0.ext .. base.(FnChain-1).ext may pre-exist in the directories
\* getUniqueFilename is called on.
FnChain == 5
\* Number of requests served in the runs that keep the log.
MaxLog == 2

Handlers == {"g1", "g2"}

(***************************************************************************)
(* File names                                                              *)
(***************************************************************************)
DigitChars == <<"0", "1", "2", "3", "4", "5", "6", "7", "8", "9">>

MaxOf(S) == CHOOSE x \in S : \A y \in S : y <= x

\* fmt's %d of a non-negative int.
RECURSIVE Digits(_)
Digits(n) ==
    IF n < 10 THEN <<DigitChars[n + 1]>>
    ELSE Digits(n \div 10) \o <<DigitChars[(n % 10) + 1]>>

\* filepath.Ext: the suffix beginning at the final dot of the name, empty
\* when there is no dot (names hold no path separator: multipart's
\* FileHeader.Filename is a base name).
Ext(filename) ==
    LET dots == {i \in 1..Len(filename) : filename[i] = "."}
    IN  IF dots = {} THEN <<>>
        ELSE SubSeq(filename, MaxOf(dots), Len(filename))

\* name := filename[:len(filename)-len(ext)]
BaseOf(filename) == SubSeq(filename, 1, Len(filename) - Len(Ext(filename)))

\* fmt.Sprintf("%s.%d%s", name, counter, ext)
Sprintf(name, n, ext) == name \o <<".">> \o Digits(n) \o ext

\* newFilename of the probe loop for a requested file name.
Candidate(filename, n) == Sprintf(BaseOf(filename), n, Ext(filename))

\* counter := 0
FirstCounter == 0

NextCounterSkip(n) == n + 2
\* counter++
NextCounter(n) == n + 1

Repeat(c, n) == [i \in 1..n |-> c]

NameA    == <<"a">>
NameAT   == <<"a", ".", "t">>
NameA0T  == <<"a", ".", "0", ".", "t">>
NameDotT == <<".", "t">>
\* A name of exactly NameMax characters: it can be created, none of its
\* candidates can.
LongName == Repeat("a", NameMax)
\* A name the filesystem refuses.
TooLong  == Repeat("a", NameMax + 1)

(***************************************************************************)
(* The filesystem                                                          *)
(***************************************************************************)
NoError == "nil"
ENOENT == "ENOENT"
ENAMETOOLONG == "ENAMETOOLONG"

StatBareName(exists, fs, name) ==
    IF Len(name) > NameMax THEN ENAMETOOLONG ELSE ENOENT
\* os.Stat(filepath.Join(dir, name)): the error it returns.
Stat(exists, fs, name) ==
    IF Len(name) > NameMax THEN ENAMETOOLONG
    ELSE IF exists /\ name \in DOMAIN fs THEN NoError
    ELSE ENOENT

IsNotExistInverted(err) == err = NoError
\* os.IsNotExist(err)
IsNotExist(err) == err = ENOENT

Empty == "empty"
EmptyDir == [n \in {} |-> Empty]
\* The contents of a directory entry that is itself a directory.
SubDir == "dir"
SubDirName == <<"d">>
\* info.Size(): the byte count of a file's contents.
Bytes ==
    [empty |-> 0, partial |-> 1, p1 |-> 2, p2 |-> 3, old |-> 4, shared |-> 5, nested |-> 6]
Size(contents) == Bytes[contents]

\* The function fs with name bound to contents (name added when missing).
Put(fs, name, contents) ==
    [n \in DOMAIN fs \cup {name} |-> IF n = name THEN contents ELSE fs[n]]

(***************************************************************************)
(* Requests and responses                                                  *)
(***************************************************************************)
Keys == {"k1", "k2"}
NoCookie == "nocookie"
\* The value of the request's first cookie named key, or NoCookie.
CookieValues == Keys \cup {NoCookie}
\* One pair of the Cookie header; net/http drops the pairs it cannot parse.
KeyCookie(v) == [name |-> "key", value |-> v, valid |-> TRUE]
\* The Cookie headers of the server runs: no cookie, or the cookie key alone.
CookieHeaders == {<<>>} \cup {<<KeyCookie(k)>> : k \in Keys}
CookieUnchecked(r, name) ==
    LET found == {i \in 1..Len(r.cookies) : r.cookies[i].name = name}
    IN  IF found = {} THEN NoCookie
        ELSE r.cookies[CHOOSE i \in found : \A j \in found : i <= j].value
\* r.Cookie(name): the value of the first well-formed cookie of that name,
\* NoCookie for http.ErrNoCookie.
Cookie(r, name) ==
    LET found == {i \in 1..Len(r.cookies) : r.cookies[i].valid /\ r.cookies[i].name = name}
    IN  IF found = {} THEN NoCookie
        ELSE r.cookies[CHOOSE i \in found : \A j \in found : i <= j].value
\* The values of the query parameter key, in order.
KeySeqs == {<<>>} \cup {<<k>> : k \in Keys}
Payloads == {"p1", "p2"}
Methods == {"GET", "POST"}

\* A URL path: /top, or /top/name when sub.
Path(top, sub, name) == [top |-> top, sub |-> sub, name |-> name]
RootPath == Path("", FALSE, <<>>)
UploadPath == Path("upload", FALSE, <<>>)
\* The base name of the share path when it is a single file, and the one
\* file of the share path when it is a directory.
ShareBase == NameAT
Paths == {RootPath, UploadPath, Path("uploads", TRUE, NameAT),
          Path("shared", TRUE, ShareBase), Path("shared", TRUE, NameA)}

\* File names the clients upload in the server runs.
ReqNames == {NameAT, LongName}

NoForm == [kind |-> "none", filename |-> <<>>, payload |-> Empty]
Forms ==
    {[kind |-> k, filename |-> <<>>, payload |-> Empty] : k \in {"bad", "nofile"}}
    \cup {[kind |-> "file", filename |-> n, payload |-> p] : n \in ReqNames, p \in Payloads}

Request(path, method, cookies, keys, form) ==
    [path |-> path, method |-> method, cookies |-> cookies, keys |-> keys, form |-> form,
     message |-> "", type |-> ""]

Requests ==
    {Request(p, m, c, k, NoForm) : p \in Paths, m \in Methods, c \in CookieHeaders, k \in KeySeqs}
    \cup {Request(UploadPath, "POST", c, k, f) : c \in CookieHeaders, k \in KeySeqs, f \in Forms}

NoRequest == Request(RootPath, "", <<>>, <<>>, NoForm)

NoBytes == "nobytes"
\* The data the index template is executed on.
NoPage == [Message |-> "", MessageType |-> "", Key |-> "",
           SharedFiles |-> <<>>, UploadsFiles |-> <<>>]
\* The HTML of a response that is not the index page.
NoSection == [heading |-> "", items |-> <<>>]
NoHtml == [message |-> [class |-> "", text |-> ""], uploads |-> NoSection,
           shared |-> NoSection, form |-> [action |-> "", method |-> "", field |-> ""]]
\* header is the code the handler passed to WriteHeader, 0 when it did not
\* call it; status is what the client receives.
Response(status, cookies, location, body, bytes) ==
    [status |-> status, cookies |-> cookies, location |-> location,
     body |-> body, bytes |-> bytes, page |-> NoPage, html |-> NoHtml,
     header |-> status]
\* A redirect target: /?message=<message>&type=<type>, or plain / when both
\* are empty.
Location(message, type) == [path |-> "/", message |-> message, type |-> type]
NoLocation == [path |-> "", message |-> "", type |-> ""]
NoResponse == Response(0, {}, NoLocation, "none", NoBytes)

\* http.Error(w, msg, code)
HttpError(code, msg) == Response(code, {}, NoLocation, msg, NoBytes)
\* http.Redirect(w, r, url, http.StatusSeeOther)
Redirect(cookies, url) == Response(303, cookies, url, "redirect", NoBytes)

(***************************************************************************)
(* auth.go                                                                 *)
(***************************************************************************)
validateKeyAnyValue(r) == \E i \in 1..Len(r.keys) : r.keys[i] = secretKey
\* validateKey: the first key query value equals secretKey.
validateKey(r) == Len(r.keys) > 0 /\ r.keys[1] = secretKey

validateKeyCookieIssued(r) ==
    LET cookie == Cookie(r, "key")
    IN  cookie # NoCookie /\ cookie = secretKey /\ jar = secretKey
validateKeyCookiePresent(r) == Cookie(r, "key") # NoCookie
\* validateKeyCookie: a cookie named key is present and equals secretKey.
validateKeyCookie(r) ==
    LET cookie == Cookie(r, "key")
    IN  cookie # NoCookie /\ cookie = secretKey

CookieMaxAge == 3600
SessionCookieSecure ==
    [name |-> "key", value |-> secretKey, path |-> "/", httpOnly |-> TRUE,
     secure |-> TRUE, maxAge |-> CookieMaxAge]
\* The cookie the root handler sets (webserver.go, http.SetCookie).
SessionCookie ==
    [name |-> "key", value |-> secretKey, path |-> "/", httpOnly |-> TRUE,
     secure |-> FALSE, maxAge |-> CookieMaxAge]

Unauthorized == HttpError(401, "Unauthorized: invalid or missing key cookie")

(***************************************************************************)
(* Route registration (Run) and http.ServeMux                              *)
(***************************************************************************)
RouteNoSlashRedirect(path) ==
    IF phase # "serving" THEN "unregistered"
    ELSE IF path.top = "upload" /\ ~path.sub THEN "upload"
    ELSE IF path.top = "uploads" /\ path.sub THEN "uploads"
    ELSE IF path.top = "shared" /\ path.sub /\ shareKind = "dir" THEN "sharedDir"
    ELSE IF path.top = "shared" /\ path.sub /\ shareKind = "file"
            /\ path.name = ShareBase THEN "sharedFile"
    ELSE "root"
\* The handler ServeMux picks: an exact pattern matches the path itself, a
\* pattern ending in / matches the subtree, the longest pattern wins and /
\* takes the rest.  The root of a registered subtree named without its
\* final slash (/uploads, /shared) is answered by ServeMux itself with a
\* redirect to the slash form.
Route(path) ==
    IF phase # "serving" THEN "unregistered"
    ELSE IF path.top = "upload" /\ ~path.sub THEN "upload"
    ELSE IF path.top = "uploads" /\ path.sub THEN "uploads"
    ELSE IF path.top = "uploads" THEN "slash"
    ELSE IF path.top = "shared" /\ path.sub /\ shareKind = "dir" THEN "sharedDir"
    ELSE IF path.top = "shared" /\ shareKind = "dir" THEN "slash"
    ELSE IF path.top = "shared" /\ path.sub /\ shareKind = "file"
            /\ path.name = ShareBase THEN "sharedFile"
    ELSE "root"

\* The entries of the share directory: one file and one subdirectory.
SharedFiles == [n \in {ShareBase, SubDirName} |-> IF n = SubDirName THEN SubDir ELSE "shared"]
\* What a subdirectory holds.
Nested == [n \in {NameAT} |-> "nested"]
\* d/a.t: a file of a subdirectory, as the rest of a URL path.
NestedName == SubDirName \o <<"/">> \o NameAT

NotFound == HttpError(404, "404 page not found")

\* http.FileServer(http.Dir(root)) behind http.StripPrefix: name is the URL
\* path below the prefix.  It opens root/name, whatever the depth: a file is
\* sent, a directory without the final slash is redirected to name/, and a
\* directory is answered with the index of its entries.
FileServer(exists, fs, name) ==
    LET slashes == {i \in 1..Len(name) : name[i] = "/"}
        cut     == IF slashes = {} THEN Len(name) + 1
                   ELSE CHOOSE i \in slashes : \A j \in slashes : i <= j
        first   == SubSeq(name, 1, cut - 1)
        rest    == SubSeq(name, cut + 1, Len(name))
    IN  IF ~exists THEN NotFound
        ELSE IF name = <<>> THEN Response(200, {}, NoLocation, "index", NoBytes)
        ELSE IF first \notin DOMAIN fs THEN NotFound
        ELSE IF slashes = {}
             THEN IF fs[first] = SubDir
                  THEN Response(301, {}, [path |-> "name/", message |-> "", type |-> ""],
                                "redirect", NoBytes)
                  ELSE Response(200, {}, NoLocation, "file", fs[first])
        ELSE IF fs[first] # SubDir THEN NotFound
        ELSE IF rest = <<>> THEN Response(200, {}, NoLocation, "index", NoBytes)
        ELSE IF rest \in DOMAIN Nested
             THEN Response(200, {}, NoLocation, "file", Nested[rest])
        ELSE NotFound

\* http.ServeFile(w, r, sharePath) on a regular file.
ServeFile(exists, contents) ==
    IF exists THEN Response(200, {}, NoLocation, "file", contents) ELSE NotFound

(***************************************************************************)
(* The listings of the index page                                          *)
(***************************************************************************)
\* fileInfo{Name, Size, URL}
FileInfo(name, size, url) == [Name |-> name, Size |-> size, URL |-> url]

\* os.ReadDir: the entries of a directory, in the order the directory gives.
RECURSIVE ReadDir(_)
ReadDir(names) ==
    IF names = {} THEN <<>>
    ELSE LET n == CHOOSE x \in names : TRUE
         IN  <<n>> \o ReadDir(names \ {n})

ListEntriesAll(entries, fs, top) ==
    [i \in 1..Len(entries) |->
        FileInfo(entries[i], IF fs[entries[i]] = SubDir THEN 0 ELSE Size(fs[entries[i]]),
                 Path(top, TRUE, entries[i]))]
\* The loop over the entries: subdirectories are skipped, every other entry
\* is appended with its name, size and URL /top/name.
RECURSIVE ListEntries(_, _, _)
ListEntries(entries, fs, top) ==
    IF entries = <<>> THEN <<>>
    ELSE LET entry == Head(entries)
         IN  IF fs[entry] = SubDir
             THEN ListEntries(Tail(entries), fs, top)
             ELSE <<FileInfo(entry, Size(fs[entry]), Path(top, TRUE, entry))>>
                      \o ListEntries(Tail(entries), fs, top)

NotADirectory == "uploads path is not a directory"

\* What is at the uploads path: "absent", "file" (not a directory) or "dir".
UploadsKind == IF notDir THEN "file" ELSE IF dirExists THEN "dir" ELSE "absent"

getUploadsFilesAtStartup(kind, fs) ==
    IF kind = "absent" THEN [files |-> <<>>, err |-> NoError]
    ELSE IF kind # "dir" THEN [files |-> <<>>, err |-> NotADirectory]
    ELSE [files |-> ListEntries(ReadDir(DOMAIN EmptyDir), EmptyDir, "uploads"), err |-> NoError]
getUploadsFilesStrict(kind, fs) ==
    IF kind = "dir"
    THEN [files |-> ListEntries(ReadDir(DOMAIN fs), fs, "uploads"), err |-> NoError]
    ELSE [files |-> <<>>, err |-> IF kind = "file" THEN NotADirectory ELSE ENOENT]
\* getUploadsFiles(uploadsDir): the list and the error it returns.
getUploadsFiles(kind, fs) ==
    IF kind = "absent" THEN [files |-> <<>>, err |-> NoError]
    ELSE IF kind # "dir" THEN [files |-> <<>>, err |-> NotADirectory]
    ELSE [files |-> ListEntries(ReadDir(DOMAIN fs), fs, "uploads"), err |-> NoError]

\* getSharedFiles(sharePath): the list and the error it returns.
getSharedFiles(kind, fs) ==
    IF kind = "absent" THEN [files |-> <<>>, err |-> ENOENT]
    ELSE IF kind # "dir"
         THEN [files |-> <<FileInfo(ShareBase, Size(fs[ShareBase]),
                                    Path("shared", TRUE, ShareBase))>>,
               err |-> NoError]
    ELSE [files |-> ListEntries(ReadDir(DOMAIN fs), fs, "shared"), err |-> NoError]

PageDataAbortOnError(r) ==
    LET uploads == getUploadsFiles(UploadsKind, files)
        shared  == IF sharePath # "" THEN getSharedFiles(shareNow, SharedFiles)
                   ELSE [files |-> <<>>, err |-> NoError]
        failed  == uploads.err # NoError \/ shared.err # NoError
    IN  [Message      |-> IF failed THEN "Error" ELSE r.message,
         MessageType  |-> IF failed THEN "error" ELSE r.type,
         Key          |-> secretKey,
         SharedFiles  |-> IF failed THEN <<>> ELSE shared.files,
         UploadsFiles |-> IF failed THEN <<>> ELSE uploads.files]
PageDataNoDefaultType(r) ==
    LET uploads == getUploadsFiles(UploadsKind, files)
        shared  == IF sharePath # "" THEN getSharedFiles(shareNow, SharedFiles)
                   ELSE [files |-> <<>>, err |-> NoError]
        failed  == uploads.err # NoError \/ shared.err # NoError
    IN  [Message      |-> IF r.message # "" THEN r.message
                          ELSE IF failed THEN "Error" ELSE "",
         MessageType  |-> IF r.message # "" \/ ~failed THEN r.type ELSE "error",
         Key          |-> secretKey,
         SharedFiles  |-> shared.files,
         UploadsFiles |-> uploads.files]
\* The data of the index page: the listings, then the message, where the
\* later assignment wins (uploads error, shared error, query parameter).
PageData(r) ==
    LET uploads == getUploadsFiles(UploadsKind, files)
        shared  == IF sharePath # "" THEN getSharedFiles(shareNow, SharedFiles)
                   ELSE [files |-> <<>>, err |-> NoError]
        m1 == IF uploads.err # NoError
              THEN <<"Error accessing uploads directory: " \o uploads.err, "error">>
              ELSE <<"", "">>
        m2 == IF shared.err # NoError
              THEN <<"Error accessing shared path: " \o shared.err, "error">>
              ELSE m1
        m3 == IF r.message # ""
              THEN <<r.message, IF r.type # "" THEN r.type ELSE "success">>
              ELSE m2
    IN  [Message      |-> m3[1],
         MessageType  |-> m3[2],
         Key          |-> secretKey,
         SharedFiles  |-> shared.files,
         UploadsFiles |-> uploads.files]

\* html/template escapes the text it inserts: one character of a name.
HTMLEscape(c) ==
    IF c = "&" THEN "&amp;" ELSE IF c = "<" THEN "&lt;" ELSE IF c = ">" THEN "&gt;" ELSE c
\* <li> of a listing: the link to .URL with the escaped .Name as its text,
\* then "(.Size bytes)".
Item(f) ==
    [href |-> f.URL, text |-> [i \in 1..Len(f.Name) |-> HTMLEscape(f.Name[i])],
     size |-> f.Size]
SectionAlways(heading, listing) ==
    [heading |-> heading, items |-> [i \in 1..Len(listing) |-> Item(listing[i])]]
\* {{if .UploadsFiles}} / {{if .SharedFiles}}: the heading and the list, or
\* nothing when the slice is empty.
Section(heading, listing) ==
    IF listing = <<>> THEN NoSection
    ELSE [heading |-> heading, items |-> [i \in 1..Len(listing) |-> Item(listing[i])]]
\* The index template executed on data.
Render(data) ==
    [message |-> IF data.Message = "" THEN NoHtml.message
                 ELSE [class |-> "message " \o data.MessageType, text |-> data.Message],
     uploads |-> Section("Uploaded Files", data.UploadsFiles),
     shared  |-> Section("Shared Files", data.SharedFiles),
     form    |-> [action |-> "/upload?key=" \o data.Key, method |-> "post", field |-> "file"]]

\* tmpl.Execute(w, data): the page is written without a call of
\* WriteHeader, so net/http sends status 200.
Page(data) ==
    [Response(200, {}, NoLocation, "page", NoBytes)
        EXCEPT !.page = data, !.html = Render(data), !.header = 0]

(***************************************************************************)
(* Handlers.  A request goroutine is idle, inside the /upload handler      *)
(* (stat, probe, create, copy: one step per filesystem call), or done: its *)
(* handler has returned and loggingMiddleware has yet to log.              *)
(***************************************************************************)
UploadLocals == <<counter, resolved, disturbed, clobbered, madeDir>>
\* What no handler writes.
Config == <<secretKey, shareKind, sharePath, shareNow, notDir, oldKeys, uploadsDir, phase>>

\* The handler of goroutine h answers request r with response and returns.
Answer(h, r, response) ==
    /\ pc' = [pc EXCEPT ![h] = "done"]
    /\ req' = [req EXCEPT ![h] = r]
    /\ resp' = [resp EXCEPT ![h] = response]
    /\ jar' = IF response.cookies = {} THEN jar
              ELSE (CHOOSE c \in response.cookies : TRUE).value

RootResponseAnyKey(r) ==
    IF ~validateKeyCookie(r)
    THEN IF Len(r.keys) > 0
         THEN Redirect({SessionCookie}, Location("", ""))
         ELSE HttpError(403, "No key provided")
    ELSE Page(PageData(r))
RootResponseRedirectSame(r) ==
    IF ~validateKeyCookie(r)
    THEN IF validateKey(r)
         THEN Redirect({SessionCookie},
                       [Location("", "") EXCEPT !.path = "/?key=" \o r.keys[1]])
         ELSE HttpError(403, "No key provided")
    ELSE Page(PageData(r))
RootResponseNoBootstrap(r) ==
    IF ~validateKeyCookie(r)
    THEN HttpError(403, "No key provided")
    ELSE Page(PageData(r))
RootResponseAlwaysBootstrap(r) ==
    IF ~validateKeyCookie(r)
    THEN Redirect({SessionCookie}, Location("", ""))
    ELSE Page(PageData(r))
RootResponseKeyFirst(r) ==
    IF validateKey(r)
    THEN Redirect({SessionCookie}, Location("", ""))
    ELSE IF validateKeyCookie(r) THEN Page(PageData(r))
    ELSE HttpError(403, "No key provided")
\* The root handler's response (webserver.go, "/"): bootstrap or page.
RootResponse(r) ==
    IF ~validateKeyCookie(r)
    THEN IF validateKey(r)
         THEN Redirect({SessionCookie}, Location("", ""))
         ELSE HttpError(403, "No key provided")
    ELSE Page(PageData(r))

HandleRootRotating(h, r) ==
    /\ pc[h] = "idle"
    /\ Route(r.path) = "root"
    /\ Answer(h, r, RootResponse(r))
    /\ secretKey' = IF RootResponse(r).status = 303
                    THEN CHOOSE k \in Keys : k # secretKey ELSE secretKey
    /\ UNCHANGED <<shareKind, sharePath, shareNow, notDir, oldKeys, uploadsDir, phase,
                   log, dirExists, files, UploadLocals>>
\* http.HandleFunc("/", ...)
HandleRoot(h, r) ==
    /\ pc[h] = "idle"
    /\ Route(r.path) = "root"
    /\ Answer(h, r, RootResponse(r))
    /\ UNCHANGED <<Config, log, dirExists, files, UploadLocals>>

requireKeyAfterMethod(r, response) ==
    IF response # NoResponse /\ response.status = 405 THEN response
    ELSE IF ~validateKeyCookie(r) THEN Unauthorized ELSE response
requireKeyAfterForm(r, response) ==
    IF response # NoResponse /\ response.status = 303 THEN response
    ELSE IF ~validateKeyCookie(r) THEN Unauthorized ELSE response
requireKeyOrQuery(r, response) ==
    IF ~validateKeyCookie(r) /\ ~validateKey(r) THEN Unauthorized ELSE response
\* requireKey, and the same check inlined in the /shared/ and /uploads/
\* handlers: 401 unless the cookie is valid, else the wrapped handler.
requireKey(r, response) ==
    IF ~validateKeyCookie(r) THEN Unauthorized ELSE response

\* http.Handle("/uploads/", ...)
HandleUploads(h, r) ==
    /\ pc[h] = "idle"
    /\ Route(r.path) = "uploads"
    /\ Answer(h, r, requireKey(r, FileServer(dirExists, files, r.path.name)))
    /\ UNCHANGED <<Config, log, dirExists, files, UploadLocals>>

\* http.Handle("/shared/", ...), registered when sharePath is a directory
HandleSharedDir(h, r) ==
    /\ pc[h] = "idle"
    /\ Route(r.path) = "sharedDir"
    /\ Answer(h, r, requireKey(r, FileServer(shareNow = "dir", SharedFiles, r.path.name)))
    /\ UNCHANGED <<Config, log, dirExists, files, UploadLocals>>

\* http.HandleFunc("/shared/"+info.Name(), ...), registered when sharePath
\* is a single file
HandleSharedFile(h, r) ==
    /\ pc[h] = "idle"
    /\ Route(r.path) = "sharedFile"
    /\ Answer(h, r, requireKey(r, ServeFile(shareNow = "file", SharedFiles[ShareBase])))
    /\ UNCHANGED <<Config, log, dirExists, files, UploadLocals>>

UploadEarlyResponseAnyMethod(r) ==
    IF r.form.kind \in {"none", "bad"}
    THEN Redirect({}, Location("parse error", "error"))
    ELSE IF r.form.kind = "nofile"
         THEN Redirect({}, Location("Error retrieving file", "error"))
    ELSE NoResponse
\* ServeMux's own handler for the root of a subtree named without its
\* final slash: http.RedirectHandler(path + "/", 301).  It is not one of
\* Run's handlers: no key check, no loggingMiddleware.
HandleSlash(h, r) ==
    /\ pc[h] = "idle"
    /\ Route(r.path) = "slash"
    /\ Answer(h, r, Response(301, {},
                             [path |-> "/" \o r.path.top \o "/", message |-> "", type |-> ""],
                             "redirect", NoBytes))
    /\ UNCHANGED <<Config, log, dirExists, files, UploadLocals>>

\* What the /upload handler answers before it touches the filesystem, or
\* NoResponse when it goes on to os.MkdirAll.
UploadEarlyResponse(r) ==
    IF r.method # "POST" THEN HttpError(405, "Method not allowed")
    ELSE IF r.form.kind \in {"none", "bad"}
         THEN Redirect({}, Location("parse error", "error"))
    ELSE IF r.form.kind = "nofile"
         THEN Redirect({}, Location("Error retrieving file", "error"))
    ELSE NoResponse

UploadBeginMkdirFirst(h, r) ==
    /\ pc[h] = "idle"
    /\ Route(r.path) = "upload"
    /\ LET early == requireKey(r, UploadEarlyResponse(r))
       IN  IF early # NoResponse
           THEN /\ Answer(h, r, early)
                /\ dirExists' = (dirExists \/ (early.status = 303 /\ ~notDir))
                /\ madeDir' = [madeDir EXCEPT ![h] = dirExists' # dirExists]
                /\ UNCHANGED <<Config, log, files, counter, resolved, disturbed, clobbered>>
           ELSE \E ok \in BOOLEAN :
                IF ok /\ ~notDir
                THEN /\ pc' = [pc EXCEPT ![h] = "stat"]
                     /\ req' = [req EXCEPT ![h] = r]
                     /\ dirExists' = TRUE
                     /\ madeDir' = [madeDir EXCEPT ![h] = ~dirExists]
                     /\ UNCHANGED <<Config, log, files, resp, jar, counter, resolved,
                                    disturbed, clobbered>>
                ELSE /\ Answer(h, r, Redirect({}, Location("Error creating uploads directory", "error")))
                     /\ UNCHANGED <<Config, log, dirExists, files, UploadLocals>>
\* http.HandleFunc("/upload", ...): requireKey, the method check, the form,
\* os.MkdirAll.  MkdirAll fails when the uploads path is not a directory, or
\* when the filesystem refuses for any other reason.
UploadBegin(h, r) ==
    /\ pc[h] = "idle"
    /\ Route(r.path) = "upload"
    /\ LET early == requireKey(r, UploadEarlyResponse(r))
       IN  IF early # NoResponse
           THEN /\ Answer(h, r, early)
                /\ UNCHANGED <<Config, log, dirExists, files, UploadLocals>>
           ELSE \E ok \in BOOLEAN :
                IF ok /\ ~notDir
                THEN /\ pc' = [pc EXCEPT ![h] = "stat"]
                     /\ req' = [req EXCEPT ![h] = r]
                     /\ dirExists' = TRUE
                     /\ madeDir' = [madeDir EXCEPT ![h] = ~dirExists]
                     /\ UNCHANGED <<Config, log, files, resp, jar, counter, resolved,
                                    disturbed, clobbered>>
                ELSE /\ Answer(h, r, Redirect({}, Location("Error creating uploads directory", "error")))
                     /\ UNCHANGED <<Config, log, dirExists, files, UploadLocals>>

\* The file name of the part named file (handler.Filename).
Filename(h) == req[h].form.filename

UploadStatNoCheck(h) ==
    /\ pc[h] = "stat"
    /\ resolved' = [resolved EXCEPT ![h] = Filename(h)]
    /\ pc' = [pc EXCEPT ![h] = "create"]
    /\ disturbed' = [disturbed EXCEPT ![h] = FALSE]
    /\ UNCHANGED <<Config, log, dirExists, files, req, resp, jar, counter, clobbered, madeDir>>
\* getUniqueFilename, the check of the original name: return it when
\* os.Stat reports that it does not exist, else enter the probe loop.
UploadStat(h) ==
    /\ pc[h] = "stat"
    /\ IF IsNotExist(Stat(dirExists, files, Filename(h)))
       THEN /\ resolved' = [resolved EXCEPT ![h] = Filename(h)]
            /\ pc' = [pc EXCEPT ![h] = "create"]
            /\ UNCHANGED counter
       ELSE /\ counter' = [counter EXCEPT ![h] = FirstCounter]
            /\ pc' = [pc EXCEPT ![h] = "probe"]
            /\ UNCHANGED resolved
    /\ disturbed' = [disturbed EXCEPT ![h] = FALSE]
    /\ UNCHANGED <<Config, log, dirExists, files, req, resp, jar, clobbered, madeDir>>

UploadProbeNoCheck(h) ==
    /\ pc[h] = "probe"
    /\ resolved' = [resolved EXCEPT ![h] = Candidate(Filename(h), counter[h])]
    /\ pc' = [pc EXCEPT ![h] = "create"]
    /\ UNCHANGED <<Config, log, dirExists, files, req, resp, jar, counter, disturbed, clobbered, madeDir>>
\* getUniqueFilename, one iteration of the probe loop.
UploadProbe(h) ==
    /\ pc[h] = "probe"
    /\ LET newFilename == Candidate(Filename(h), counter[h])
       IN  IF IsNotExist(Stat(dirExists, files, newFilename))
           THEN /\ resolved' = [resolved EXCEPT ![h] = newFilename]
                /\ pc' = [pc EXCEPT ![h] = "create"]
                /\ UNCHANGED counter
           ELSE /\ counter[h] < MaxCounter
                /\ counter' = [counter EXCEPT ![h] = NextCounter(@)]
                /\ UNCHANGED <<resolved, pc>>
    /\ UNCHANGED <<Config, log, dirExists, files, req, resp, jar, disturbed, clobbered, madeDir>>

\* os.Create(uploadsDir/uniqueFilename): O_CREATE|O_TRUNC, so an existing
\* file is truncated.  It fails when the filesystem refuses (here: the name
\* is too long, the directory is full, or any other reason).
UploadCreate(h) ==
    /\ pc[h] = "create"
    /\ \E ok \in BOOLEAN :
        IF ok
        THEN /\ Len(resolved[h]) <= NameMax
             /\ resolved[h] \in DOMAIN files \/ Cardinality(DOMAIN files) < MaxFiles
             /\ files' = Put(files, resolved[h], Empty)
             /\ clobbered' = [clobbered EXCEPT ![h] = resolved[h] \in DOMAIN files]
             /\ disturbed' = [o \in Handlers |->
                    IF o # h /\ pc[o] \in {"probe", "create"} THEN TRUE ELSE disturbed[o]]
             /\ pc' = [pc EXCEPT ![h] = "copy"]
             /\ UNCHANGED <<req, resp, jar>>
        ELSE /\ Answer(h, req[h], Redirect({}, Location("Error creating file", "error")))
             /\ UNCHANGED <<files, clobbered, disturbed>>
    /\ UNCHANGED <<Config, log, dirExists, counter, resolved, madeDir>>

\* io.Copy(dst, file) and the final redirect.  A failed copy leaves what
\* was written so far.
UploadCopy(h) ==
    /\ pc[h] = "copy"
    /\ \E ok \in BOOLEAN :
        IF ok
        THEN /\ files' = Put(files, resolved[h], req[h].form.payload)
             /\ Answer(h, req[h], Redirect({}, Location("File uploaded successfully!", "success")))
        ELSE /\ files' = Put(files, resolved[h], "partial")
             /\ Answer(h, req[h], Redirect({}, Location("Error saving file", "error")))
    /\ UNCHANGED <<Config, log, dirExists, UploadLocals>>

\* log.Printf("%s %s %s %d %s", ...): method, path and wrapped.statusCode,
\* which is 200 unless the handler called WriteHeader.
\* responseWriter.statusCode before the handler runs: http.StatusOK.
StatusOK == 200
\* wrapped.statusCode once the handler has returned.
StatusCode(response, initial) == IF response.header = 0 THEN initial ELSE response.header
LogRecord(r, response) ==
    [method |-> r.method, path |-> r.path, status |-> StatusCode(response, StatusOK)]
\* The log of a run that does not keep the records, and the empty log of
\* one that does.
NoLog == [kept |-> FALSE, lines |-> <<>>]
EmptyLog == [kept |-> TRUE, lines |-> <<>>]

\* loggingMiddleware: the handler has returned, the request is logged and
\* the goroutine ends.  (A redirect of ServeMux itself ends unlogged.)
LogRequest(h) ==
    /\ pc[h] = "done"
    /\ pc' = [pc EXCEPT ![h] = "idle"]
    /\ req' = [req EXCEPT ![h] = NoRequest]
    /\ resp' = [resp EXCEPT ![h] = NoResponse]
    /\ counter' = [counter EXCEPT ![h] = 0]
    /\ resolved' = [resolved EXCEPT ![h] = <<>>]
    /\ disturbed' = [disturbed EXCEPT ![h] = FALSE]
    /\ clobbered' = [clobbered EXCEPT ![h] = FALSE]
    /\ madeDir' = [madeDir EXCEPT ![h] = FALSE]
    /\ log' = IF log.kept /\ Route(req[h].path) # "slash"
              THEN [log EXCEPT !.lines = Append(@, LogRecord(req[h], resp[h]))]
              ELSE log
    /\ UNCHANGED <<Config, dirExists, files, jar>>

(***************************************************************************)
(* The server                                                              *)
(***************************************************************************)
\* init() of auth.go draws the key; Run registers the routes.  The uploads
\* directory is absent (default name, first run) or present and empty.
Init ==
    /\ secretKey \in Keys
    /\ oldKeys = {}
    /\ shareKind \in {"none", "file", "dir"}
    /\ sharePath = IF shareKind = "none" THEN "" ELSE "share"
    /\ shareNow = IF shareKind = "none" THEN "absent" ELSE shareKind
    /\ dirExists \in BOOLEAN
    /\ notDir = FALSE
    /\ files = EmptyDir
    /\ pc = [h \in Handlers |-> "idle"]
    /\ req = [h \in Handlers |-> NoRequest]
    /\ resp = [h \in Handlers |-> NoResponse]
    /\ counter = [h \in Handlers |-> 0]
    /\ resolved = [h \in Handlers |-> <<>>]
    /\ disturbed = [h \in Handlers |-> FALSE]
    /\ clobbered = [h \in Handlers |-> FALSE]
    /\ madeDir = [h \in Handlers |-> FALSE]
    /\ uploadsDir = ""
    /\ phase = "serving"
    /\ log = NoLog
    /\ jar = NoCookie

\* One step of request goroutine h.
Step(h) ==
    \/ \E r \in Requests : HandleRoot(h, r)
    \/ \E r \in Requests : HandleUploads(h, r)
    \/ \E r \in Requests : HandleSharedDir(h, r)
    \/ \E r \in Requests : HandleSharedFile(h, r)
    \/ \E r \in Requests : UploadBegin(h, r)
    \/ UploadStat(h)
    \/ UploadProbe(h)
    \/ UploadCreate(h)
    \/ UploadCopy(h)
    \/ LogRequest(h)

\* net/http runs one goroutine per request: the handlers interleave.
Next == \E h \in Handlers : Step(h)

Spec == Init /\ [][Next]_vars

\* The same server when the requests are handled one after the other: a
\* goroutine takes steps only while no other request is in flight.
NextSeq == \E h \in Handlers : (\A o \in Handlers \ {h} : pc[o] = "idle") /\ Step(h)

SeqSpec == Init /\ [][NextSeq]_vars

(***************************************************************************)
(* Concurrent uploads: browsers that hold the session cookie submit the    *)
(* page's form (action /upload?key=<secret>) at the same time, all with a  *)
(* file of the same name.                                                  *)
(***************************************************************************)
FormPosts ==
    {Request(UploadPath, "POST", <<KeyCookie(secretKey)>>, <<secretKey>>, f) :
        f \in {g \in Forms : g.kind = "file" /\ g.filename = NameAT}}

RaceInit == Init /\ shareKind = "none"

RaceNext ==
    \E h \in Handlers :
        \/ \E r \in FormPosts : UploadBegin(h, r)
        \/ UploadStat(h)
        \/ UploadProbe(h)
        \/ UploadCreate(h)
        \/ UploadCopy(h)
        \/ LogRequest(h)

RaceSpec == RaceInit /\ [][RaceNext]_vars

(***************************************************************************)
(* getUniqueFilename on its own: two authorised uploads of one file name   *)
(* have reached the call, the uploads directory holds any subset of        *)
(* FnUniverse (a default uploads directory is reused across runs), and     *)
(* nothing else touches the directory.                                     *)
(***************************************************************************)
FnUniverse ==
    {NameAT, NameA, Candidate(NameA, 0), LongName}
    \cup {Candidate(NameAT, k) : k \in 0..(FnChain - 1)}

FnNames == {NameAT, NameA, NameA0T, NameDotT, LongName, TooLong}

FnInit ==
    /\ secretKey \in Keys
    /\ oldKeys = {}
    /\ shareKind = "none"
    /\ sharePath = ""
    /\ shareNow = "absent"
    /\ notDir = FALSE
    /\ dirExists = TRUE
    /\ \E D \in SUBSET FnUniverse : files = [n \in D |-> "old"]
    /\ pc = [h \in Handlers |-> "stat"]
    /\ \E n \in FnNames, p \in Payloads :
           req = [h \in Handlers |->
                    Request(UploadPath, "POST", <<KeyCookie(secretKey)>>, <<>>,
                            [kind |-> "file", filename |-> n, payload |-> p])]
    /\ resp = [h \in Handlers |-> NoResponse]
    /\ counter = [h \in Handlers |-> 0]
    /\ resolved = [h \in Handlers |-> <<>>]
    /\ disturbed = [h \in Handlers |-> FALSE]
    /\ clobbered = [h \in Handlers |-> FALSE]
    /\ madeDir = [h \in Handlers |-> FALSE]
    /\ uploadsDir = ""
    /\ phase = "serving"
    /\ log = NoLog
    /\ jar = secretKey

FnNext == \E h \in Handlers : UploadStat(h) \/ UploadProbe(h)

FnSpec == FnInit /\ [][FnNext]_vars

(***************************************************************************)
(* Sessions: GET requests with any Cookie header of up to two pairs and    *)
(* any key query of up to two values, and restarts of the process.          *)
(***************************************************************************)
\* The pairs of a Cookie header: key or another cookie with any value, and
\* a pair named key that net/http cannot parse.
CookiePairs ==
    {[name |-> n, value |-> v, valid |-> TRUE] : n \in {"key", "other"}, v \in Keys}
    \cup {[name |-> "key", value |-> v, valid |-> FALSE] : v \in Keys}
SessionCookieHeaders ==
    {<<>>} \cup {<<c>> : c \in CookiePairs} \cup {<<c, d>> : c, d \in CookiePairs}
SessionKeySeqs ==
    {<<>>} \cup {<<k>> : k \in Keys} \cup {<<k, l>> : k, l \in Keys}
SessionRequests ==
    {Request(p, "GET", c, k, NoForm) :
        p \in Paths, c \in SessionCookieHeaders, k \in SessionKeySeqs}

RestartSameKey ==
    /\ oldKeys = {}
    /\ secretKey' = secretKey
    /\ oldKeys' = oldKeys \cup {secretKey}
    /\ shareKind' = IF sharePath = "" \/ shareNow = "absent" THEN "none" ELSE shareNow
    /\ pc' = [h \in Handlers |-> "idle"]
    /\ req' = [h \in Handlers |-> NoRequest]
    /\ resp' = [h \in Handlers |-> NoResponse]
    /\ UNCHANGED <<sharePath, shareNow, notDir, uploadsDir, phase, log, dirExists, files,
                   jar, UploadLocals>>
\* The process ends (the requests in flight with it) and goshare is started
\* again with the same arguments and the default uploads directory: init()
\* draws 16 random bytes, a key no earlier process had, and Run registers
\* the routes for what it finds at sharePath.  The browser keeps its cookie.
Restart ==
    /\ \E k \in Keys \ (oldKeys \cup {secretKey}) : secretKey' = k
    /\ oldKeys' = oldKeys \cup {secretKey}
    /\ shareKind' = IF sharePath = "" \/ shareNow = "absent" THEN "none" ELSE shareNow
    /\ pc' = [h \in Handlers |-> "idle"]
    /\ req' = [h \in Handlers |-> NoRequest]
    /\ resp' = [h \in Handlers |-> NoResponse]
    /\ UNCHANGED <<sharePath, shareNow, notDir, uploadsDir, phase, log, dirExists, files,
                   jar, UploadLocals>>

\* The requests that may arrive: any of the set, once the request before
\* has been answered and logged.
Incoming(requests) == IF \A h \in Handlers : pc[h] = "idle" THEN requests ELSE {}

SessionNext ==
    \/ \E h \in Handlers :
          \/ \E r \in Incoming(SessionRequests) : HandleRoot(h, r)
          \/ \E r \in Incoming(SessionRequests) : HandleUploads(h, r)
          \/ \E r \in Incoming(SessionRequests) : HandleSharedDir(h, r)
          \/ \E r \in Incoming(SessionRequests) : HandleSharedFile(h, r)
          \/ \E r \in Incoming(SessionRequests) : UploadBegin(h, r)
          \/ LogRequest(h)
    \/ Restart

SessionSpec == Init /\ [][SessionNext]_vars

(***************************************************************************)
(* The index page and the downloads: GET requests on a server started on   *)
(* any share path (none, missing at startup, a file, a directory) and any  *)
(* uploads path (missing, not a directory, a directory left by earlier     *)
(* runs that holds files and possibly a subdirectory).                     *)
(***************************************************************************)
\* A file name html/template has to escape.
NameAmp == <<"a", "&", "t">>
CatalogDirs ==
    {[n \in D |-> IF n = SubDirName THEN SubDir ELSE IF n = NameAT THEN "p1" ELSE "old"] :
        D \in SUBSET {NameAT, NameA0T, NameAmp, SubDirName}}

CatalogPaths ==
    {RootPath,
     Path("uploads", TRUE, <<>>), Path("uploads", TRUE, NameAT),
     Path("uploads", TRUE, SubDirName), Path("uploads", TRUE, NestedName),
     Path("shared", TRUE, ShareBase), Path("shared", TRUE, NameA),
     Path("shared", TRUE, NestedName)}

CatalogRequests ==
    {[Request(p, "GET", c, <<>>, NoForm) EXCEPT !.message = m, !.type = t] :
        p \in CatalogPaths, c \in CookieHeaders, m \in {"", "hello"}, t \in {"", "info"}}

CatalogInit ==
    /\ secretKey \in Keys
    /\ oldKeys = {}
    /\ sharePath \in {"", "share"}
    /\ shareNow \in IF sharePath = "" THEN {"absent"} ELSE {"absent", "file", "dir"}
    /\ shareKind = IF shareNow = "absent" THEN "none" ELSE shareNow
    /\ \/ dirExists = FALSE /\ notDir \in BOOLEAN /\ files = EmptyDir
       \/ dirExists = TRUE /\ notDir = FALSE /\ files \in CatalogDirs
    /\ pc = [h \in Handlers |-> "idle"]
    /\ req = [h \in Handlers |-> NoRequest]
    /\ resp = [h \in Handlers |-> NoResponse]
    /\ counter = [h \in Handlers |-> 0]
    /\ resolved = [h \in Handlers |-> <<>>]
    /\ disturbed = [h \in Handlers |-> FALSE]
    /\ clobbered = [h \in Handlers |-> FALSE]
    /\ madeDir = [h \in Handlers |-> FALSE]
    /\ uploadsDir = ""
    /\ phase = "serving"
    /\ log = NoLog
    /\ jar = NoCookie

\* The share path is removed while the server runs, between two requests:
\* from then on os.Stat(sharePath) fails.
ShareRemoved ==
    /\ \A h \in Handlers : pc[h] = "idle"
    /\ shareNow # "absent"
    /\ shareNow' = "absent"
    /\ UNCHANGED <<secretKey, shareKind, sharePath, notDir, oldKeys, uploadsDir, phase,
                   log, dirExists, files, pc, req, resp, jar, UploadLocals>>

CatalogNext ==
    \/ \E h \in Handlers :
          \/ \E r \in Incoming(CatalogRequests) : HandleRoot(h, r)
          \/ \E r \in Incoming(CatalogRequests) : HandleUploads(h, r)
          \/ \E r \in Incoming(CatalogRequests) : HandleSharedDir(h, r)
          \/ \E r \in Incoming(CatalogRequests) : HandleSharedFile(h, r)
          \/ LogRequest(h)
    \/ ShareRemoved

CatalogSpec == CatalogInit /\ [][CatalogNext]_vars

(***************************************************************************)
(* Startup and service: the process enters Run with or without             *)
(* --uploads-dir, on an uploads path that is missing, a directory or not a *)
(* directory; once the routes are registered it serves, one after the      *)
(* other, requests to / and to /upload of any method, cookie and form,     *)
(* while files of the uploads directory may be removed between requests.   *)
(***************************************************************************)
RunAcceptExisting ==
    /\ phase = "init"
    /\ IF uploadsDir = "" \/ dirExists \/ notDir
       THEN phase' = "serving" /\ UNCHANGED dirExists
       ELSE \E ok \in BOOLEAN :
               IF ok THEN phase' = "serving" /\ dirExists' = TRUE
               ELSE phase' = "fatal" /\ UNCHANGED dirExists
    /\ shareKind' = IF phase' # "serving" \/ sharePath = "" \/ shareNow = "absent"
                    THEN "none" ELSE shareNow
    /\ UNCHANGED <<secretKey, sharePath, shareNow, notDir, oldKeys, uploadsDir, log,
                   files, pc, req, resp, jar, UploadLocals>>
\* Run up to the registration of the routes.  Without --uploads-dir the
\* default directory is taken as it is.  With it, log.Fatalf ends the
\* process when os.Stat finds the path or when os.MkdirAll fails; else the
\* directory is created.  Then the routes are registered for what is at
\* sharePath.
Run ==
    /\ phase = "init"
    /\ IF uploadsDir = ""
       THEN phase' = "serving" /\ UNCHANGED dirExists
       ELSE IF dirExists \/ notDir
            THEN phase' = "fatal" /\ UNCHANGED dirExists
            ELSE \E ok \in BOOLEAN :
                    IF ok THEN phase' = "serving" /\ dirExists' = TRUE
                    ELSE phase' = "fatal" /\ UNCHANGED dirExists
    /\ shareKind' = IF phase' # "serving" \/ sharePath = "" \/ shareNow = "absent"
                    THEN "none" ELSE shareNow
    /\ UNCHANGED <<secretKey, sharePath, shareNow, notDir, oldKeys, uploadsDir, log,
                   files, pc, req, resp, jar, UploadLocals>>

StartMethods == {"GET", "PUT", "POST"}
StartRequests ==
    {Request(RootPath, "GET", c, k, NoForm) : c \in CookieHeaders, k \in KeySeqs}
    \cup {Request(UploadPath, m, c, <<>>, f) :
            m \in StartMethods, c \in CookieHeaders, f \in Forms \cup {NoForm}}

StartInit ==
    /\ secretKey \in Keys
    /\ oldKeys = {}
    /\ sharePath = ""
    /\ shareNow = "absent"
    /\ shareKind = "none"
    /\ uploadsDir \in {"", "given"}
    /\ dirExists \in BOOLEAN
    /\ notDir \in IF dirExists THEN {FALSE} ELSE BOOLEAN
    /\ files = EmptyDir
    /\ phase = "init"
    /\ log = NoLog
    /\ pc = [h \in Handlers |-> "idle"]
    /\ req = [h \in Handlers |-> NoRequest]
    /\ resp = [h \in Handlers |-> NoResponse]
    /\ counter = [h \in Handlers |-> 0]
    /\ resolved = [h \in Handlers |-> <<>>]
    /\ disturbed = [h \in Handlers |-> FALSE]
    /\ clobbered = [h \in Handlers |-> FALSE]
    /\ madeDir = [h \in Handlers |-> FALSE]
    /\ jar = NoCookie

\* A file of the uploads directory is removed between two requests.
FileRemoved ==
    /\ \A h \in Handlers : pc[h] = "idle"
    /\ \E n \in DOMAIN files : files' = [m \in DOMAIN files \ {n} |-> files[m]]
    /\ UNCHANGED <<Config, log, dirExists, pc, req, resp, jar, UploadLocals>>

StartNext ==
    \/ Run
    \/ \E h \in Handlers :
          \/ \E r \in Incoming(StartRequests) : HandleRoot(h, r)
          \/ \E r \in Incoming(StartRequests) : UploadBegin(h, r)
          \/ UploadStat(h)
          \/ UploadProbe(h)
          \/ UploadCreate(h)
          \/ UploadCopy(h)
          \/ LogRequest(h)
    \/ FileRemoved

StartSpec == StartInit /\ [][StartNext]_vars

(***************************************************************************)
(* The log: a server that serves MaxLog requests to / and /upload, one     *)
(* after the other, and whose log records are kept.  The Go scheduler runs *)
(* every goroutine that can take a step, so a handler that can go on does. *)
(***************************************************************************)
LogRequests ==
    {Request(RootPath, "GET", c, k, NoForm) : c \in CookieHeaders, k \in KeySeqs}
    \cup {Request(UploadPath, "GET", c, <<>>, NoForm) : c \in CookieHeaders}
    \cup {Request(UploadPath, "POST", c, <<>>, f) : c \in CookieHeaders, f \in Forms}

LogInit ==
    /\ secretKey \in Keys
    /\ oldKeys = {}
    /\ sharePath = ""
    /\ shareNow = "absent"
    /\ shareKind = "none"
    /\ uploadsDir = ""
    /\ dirExists \in BOOLEAN
    /\ notDir = FALSE
    /\ files = EmptyDir
    /\ phase = "serving"
    /\ log = EmptyLog
    /\ pc = [h \in Handlers |-> "idle"]
    /\ req = [h \in Handlers |-> NoRequest]
    /\ resp = [h \in Handlers |-> NoResponse]
    /\ counter = [h \in Handlers |-> 0]
    /\ resolved = [h \in Handlers |-> <<>>]
    /\ disturbed = [h \in Handlers |-> FALSE]
    /\ clobbered = [h \in Handlers |-> FALSE]
    /\ madeDir = [h \in Handlers |-> FALSE]
    /\ jar = NoCookie

\* The requests that may arrive while fewer than MaxLog have been logged.
LogArrivals == IF Len(log.lines) < MaxLog THEN Incoming(LogRequests) ELSE {}

LogNext ==
    \E h \in Handlers :
        \/ \E r \in LogArrivals : HandleRoot(h, r)
        \/ \E r \in LogArrivals : UploadBegin(h, r)
        \/ UploadStat(h)
        \/ UploadProbe(h)
        \/ UploadCreate(h)
        \/ UploadCopy(h)
        \/ LogRequest(h)

LogSpec == LogInit /\ [][LogNext]_vars /\ WF_vars(LogNext)

(***************************************************************************)
(* Routing: GET requests for paths inside and outside the registered       *)
(* patterns, on a server started on any share path and uploads path.       *)
(***************************************************************************)
MuxPaths ==
    {RootPath, UploadPath, Path("upload", TRUE, <<>>),
     Path("uploads", FALSE, <<>>), Path("uploads", TRUE, NameAT),
     Path("shared", FALSE, <<>>), Path("shared", TRUE, <<>>),
     Path("shared", TRUE, ShareBase), Path("shared", TRUE, NameA),
     Path("other", FALSE, <<>>), Path("other", TRUE, NameAT)}

MuxRequests ==
    {Request(p, "GET", c, k, NoForm) : p \in MuxPaths, c \in CookieHeaders, k \in KeySeqs}

MuxNext ==
    \E h \in Handlers :
        \/ \E r \in Incoming(MuxRequests) : HandleRoot(h, r)
        \/ \E r \in Incoming(MuxRequests) : HandleUploads(h, r)
        \/ \E r \in Incoming(MuxRequests) : HandleSharedDir(h, r)
        \/ \E r \in Incoming(MuxRequests) : HandleSharedFile(h, r)
        \/ \E r \in Incoming(MuxRequests) : UploadBegin(h, r)
        \/ \E r \in Incoming(MuxRequests) : HandleSlash(h, r)
        \/ LogRequest(h)

MuxSpec == CatalogInit /\ [][MuxNext]_vars

(***************************************************************************)
(* Properties                                                              *)
(***************************************************************************)
InUpload(h) == pc[h] \in {"stat", "probe", "create", "copy"}
Done(h, route) == pc[h] = "done" /\ Route(req[h].path) = route
UploadSucceeded(h) == Done(h, "upload") /\ resp[h].location.type = "success"
StrictRoutes == {"upload", "uploads", "sharedDir", "sharedFile"}

C1_State ==
    \A h \in Handlers :
        /\ pc[h] = "create" => resolved[h] \notin DOMAIN files
        /\ ( /\ pc[h] = "create"
             /\ Filename(h) = <<"a", ".", "t">>
             /\ <<"a", ".", "t">> \in DOMAIN files
             /\ <<"a", ".", "0", ".", "t">> \notin DOMAIN files )
           => resolved[h] = <<"a", ".", "0", ".", "t">>
        /\ UploadSucceeded(h) =>
             /\ Filename(h) \in DOMAIN files
             /\ resolved[h] \in DOMAIN files
             /\ files[resolved[h]] = req[h].form.payload
C1_Step ==
    \A n \in DOMAIN files :
        /\ n \in DOMAIN files'
        /\ \/ files'[n] = files[n]
           \/ \E h \in Handlers :
                /\ pc[h] = "copy" /\ resolved[h] = n
                /\ ~clobbered[h] /\ files[n] = Empty
\* C1: when the uploads are handled one after the other, no upload
\* overwrites an existing file: the destination getUniqueFilename returns is
\* not in the directory when os.Create runs, every step keeps every existing
\* file and its contents (only the upload that created a file fills it), and
\* a.t uploaded into a directory holding a.t but not a.0.t goes to a.0.t,
\* after which both exist.
C1_NoOverwrite == []C1_State /\ [][C1_Step]_vars
C1_Witness ==
    \E h \in Handlers :
        /\ UploadSucceeded(h)
        /\ Filename(h) = NameAT
        /\ resolved[h] = <<"a", ".", "0", ".", "t">>
        /\ NameAT \in DOMAIN files
        /\ files[NameAT] \in Payloads
        /\ files[NameAT] # files[resolved[h]]

\* C2: the existence check and os.Create are separate steps.  A name is free
\* when its upload reaches os.Create unless another goroutine created a file
\* since the upload's first check, and os.Create truncates an existing file
\* only in that case: the overwrite is the race of two uploads that resolved
\* the same free name (C2_Race is that interleaving).
C2_OverwriteOnlyByRace ==
    \A h \in Handlers :
        /\ (pc[h] = "create" /\ ~disturbed[h]) => resolved[h] \notin DOMAIN files
        /\ clobbered[h] => disturbed[h]
C2_Race ==
    \E h, o \in Handlers :
        /\ h # o
        /\ Filename(h) = Filename(o)
        /\ resolved[h] = resolved[o]
        /\ UploadSucceeded(o)
        /\ pc[h] = "copy" /\ clobbered[h]
        /\ files[resolved[o]] = Empty

C6_ProbeReachesFreeCandidate ==
    \A h \in Handlers :
        pc[h] = "probe" =>
            \E k \in counter[h]..MaxCounter :
                IsNotExist(Stat(dirExists, files, Candidate(Filename(h), k)))

\* C7: a request to a strict route without a cookie key equal to the secret
\* key gets 401 and nothing else (no bytes, no page, no redirect, no
\* cookie), and the /upload handler proper runs only for a valid cookie.
C7_StrictNeedsCookie ==
    \A h \in Handlers :
        /\ ( /\ pc[h] = "done"
             /\ Route(req[h].path) \in StrictRoutes
             /\ Cookie(req[h], "key") # secretKey )
           => /\ resp[h].status = 401
              /\ resp[h].bytes = NoBytes
              /\ resp[h].body \notin {"file", "page", "redirect"}
              /\ resp[h].location = NoLocation
              /\ resp[h].cookies = {}
        /\ InUpload(h) => Cookie(req[h], "key") = secretKey
C7_Witness ==
    \E h \in Handlers :
        /\ Done(h, "uploads")
        /\ Cookie(req[h], "key") \in Keys \ {secretKey}
        /\ req[h].path.name \in DOMAIN files
        /\ resp[h].status = 401

\* C8: on a strict route the correct secret in the key query parameter does
\* not replace the cookie: 401, and no cookie is issued.
C8_NoQueryBootstrapOnStrict ==
    \A h \in Handlers :
        ( /\ pc[h] = "done"
          /\ Route(req[h].path) \in StrictRoutes
          /\ Cookie(req[h], "key") # secretKey
          /\ Len(req[h].keys) > 0
          /\ req[h].keys[1] = secretKey )
        => resp[h].status = 401 /\ resp[h].cookies = {}
C8_Witness ==
    \E h \in Handlers :
        /\ Done(h, "upload")
        /\ req[h].method = "POST"
        /\ req[h].form.kind = "file"
        /\ Cookie(req[h], "key") = NoCookie
        /\ req[h].keys = <<secretKey>>
        /\ resp[h].status = 401
        /\ jar = NoCookie

\* C9: on the root route, a correct key query parameter without a valid
\* cookie gets 303 to / with Set-Cookie key=<secret>; a later request that
\* carries only the cookie the server issued gets the page with status 200.
C9_Bootstrap ==
    \A h \in Handlers :
        Done(h, "root") =>
            /\ ( /\ Cookie(req[h], "key") # secretKey
                 /\ Len(req[h].keys) > 0
                 /\ req[h].keys[1] = secretKey )
               => /\ resp[h].status = 303
                  /\ resp[h].location = [path |-> "/", message |-> "", type |-> ""]
                  /\ Cardinality(resp[h].cookies) = 1
                  /\ \A c \in resp[h].cookies : c.name = "key" /\ c.value = secretKey
                  /\ jar = secretKey
            /\ (jar # NoCookie /\ Cookie(req[h], "key") = jar /\ req[h].keys = <<>>)
               => /\ resp[h].status = 200
                  /\ resp[h].body = "page"
                  /\ resp[h].cookies = {}
C9_Witness ==
    \E h \in Handlers :
        /\ Done(h, "root")
        /\ req[h].path = RootPath
        /\ req[h].method = "GET"
        /\ jar # NoCookie
        /\ Cookie(req[h], "key") = jar
        /\ req[h].keys = <<>>
        /\ resp[h].status = 200

\* C10: on the root route, no valid cookie and no valid key query parameter
\* (absent or wrong) gets 403: no page, no cookie, no redirect.
C10_Forbidden ==
    \A h \in Handlers :
        ( /\ Done(h, "root")
          /\ Cookie(req[h], "key") # secretKey
          /\ (req[h].keys = <<>> \/ req[h].keys[1] # secretKey) )
        => /\ resp[h].status = 403
           /\ resp[h].cookies = {}
           /\ resp[h].location = NoLocation
           /\ resp[h].body \notin {"page", "redirect", "file"}
           /\ resp[h].bytes = NoBytes
C10_Witness ==
    \E h \in Handlers :
        /\ Done(h, "root")
        /\ Cookie(req[h], "key") \in Keys \ {secretKey}
        /\ req[h].keys = <<Cookie(req[h], "key")>>
        /\ resp[h].status = 403

\* C11: a request the root handler serves with a valid cookie gets the page
\* itself: status 200, no redirect and no Set-Cookie, whether the key query
\* parameter is absent, correct or wrong.
C11_ValidCookieRenders ==
    \A h \in Handlers :
        ( /\ Done(h, "root")
          /\ \E i \in 1..Len(req[h].cookies) :
                /\ req[h].cookies[i] = [name |-> "key", value |-> secretKey, valid |-> TRUE]
                /\ \A j \in 1..(i - 1) : req[h].cookies[j].name # "key" )
        => /\ resp[h].status = 200
           /\ resp[h].body = "page"
           /\ resp[h].location = NoLocation
           /\ resp[h].cookies = {}
C11_Witness ==
    \E h \in Handlers :
        /\ Done(h, "root")
        /\ req[h].cookies = <<KeyCookie(secretKey)>>
        /\ req[h].keys = <<secretKey>>
        /\ resp[h].status = 200
        /\ resp[h].cookies = {}

\* A Cookie header whose first well-formed pair named key holds value v.
HasKeyCookie(r, v) ==
    \E i \in 1..Len(r.cookies) :
        /\ r.cookies[i] = [name |-> "key", value |-> v, valid |-> TRUE]
        /\ \A j \in 1..(i - 1) : ~(r.cookies[j].name = "key" /\ r.cookies[j].valid)

\* C12: the key query parameter is accepted exactly when it has at least one
\* value and the first one is the secret key, later values being ignored: a
\* root request without a valid cookie is answered with the bootstrap
\* redirect in that case and with 403 (never an error status) otherwise.
C12_FirstQueryValueDecides ==
    \A h \in Handlers :
        (Done(h, "root") /\ ~HasKeyCookie(req[h], secretKey))
        => /\ resp[h].status \in {303, 403}
           /\ resp[h].status = 303
                <=> (req[h].keys # <<>> /\ Head(req[h].keys) = secretKey)
C12_Witness ==
    \E h \in Handlers :
        /\ Done(h, "root")
        /\ req[h].cookies = <<>>
        /\ Len(req[h].keys) = 2
        /\ req[h].keys[1] # secretKey
        /\ req[h].keys[2] = secretKey
        /\ resp[h].status = 403

\* C13: the cookie is accepted exactly when a cookie named key is present
\* and holds the secret key: a request to a strict route is let through
\* (no 401) in that case, and gets 401 when the cookie is missing, cannot be
\* parsed, or holds another value.
C13_KeyCookieDecides ==
    \A h \in Handlers :
        (pc[h] = "done" /\ Route(req[h].path) \in StrictRoutes)
        => (resp[h].status # 401 <=> HasKeyCookie(req[h], secretKey))
C13_Witness ==
    \E h \in Handlers :
        /\ Done(h, "uploads")
        /\ req[h].cookies = <<[name |-> "key", value |-> secretKey, valid |-> FALSE],
                              [name |-> "other", value |-> secretKey, valid |-> TRUE]>>
        /\ resp[h].status = 401

C15_KeyNeverChanges == [][(secretKey \in Keys) /\ (secretKey' = secretKey)]_vars
C15_Witness ==
    \E h \in Handlers :
        /\ UploadSucceeded(h)
        /\ jar = secretKey
        /\ Cardinality(DOMAIN files) >= 2

\* C16: after a restart a cookie that holds the key of an earlier process is
\* no longer valid: with it a strict route answers 401 and the root route
\* answers 403, unless the request supplies the new key in the query, which
\* bootstraps a new session.
C16_RestartInvalidatesSessions ==
    \A h \in Handlers :
        (pc[h] = "done" /\ \E k \in oldKeys : HasKeyCookie(req[h], k))
        => /\ Route(req[h].path) \in StrictRoutes => resp[h].status = 401
           /\ Route(req[h].path) = "root" =>
                IF req[h].keys # <<>> /\ Head(req[h].keys) = secretKey
                THEN resp[h].status = 303 /\ jar = secretKey
                ELSE resp[h].status = 403
           /\ resp[h].body \notin {"page", "file"}
C16_Witness ==
    \E h \in Handlers :
        /\ Done(h, "uploads")
        /\ jar \in oldKeys
        /\ req[h].cookies = <<KeyCookie(jar)>>
        /\ resp[h].status = 401

\* The direct children of a directory that are files.
ChildFiles(fs) == {n \in DOMAIN fs : fs[n] # "dir"}
\* The entries a listing has to contain for the files of fs under /top/.
ExpectedEntries(fs, top) ==
    {[Name |-> n, Size |-> Bytes[fs[n]], URL |-> [top |-> top, sub |-> TRUE, name |-> n]] :
        n \in ChildFiles(fs)}
SeqToSet(q) == {q[i] : i \in 1..Len(q)}
PageShown(h) == Done(h, "root") /\ resp[h].body = "page"

\* C17: an authorized GET under /uploads/ or /shared/ returns file bytes
\* only for a direct child file of the uploads directory, a direct child
\* file of the share directory, or the single shared file.
C17_DownloadsConfined ==
    \A h \in Handlers :
        ( /\ pc[h] = "done"
          /\ Route(req[h].path) \in {"uploads", "sharedDir", "sharedFile"}
          /\ resp[h].bytes # NoBytes )
        => \/ /\ req[h].path.top = "uploads"
              /\ req[h].path.name \in ChildFiles(files)
           \/ /\ req[h].path.top = "shared"
              /\ req[h].path.name = <<"a", ".", "t">>

C20_ListingFailureRendersPage ==
    \A h \in Handlers :
        (Done(h, "root") /\ HasKeyCookie(req[h], secretKey))
        => /\ resp[h].status = 200
           /\ resp[h].body = "page"
           /\ (sharePath # "" /\ shareNow = "absent" /\ dirExists) =>
                 SeqToSet(resp[h].page.UploadsFiles) = ExpectedEntries(files, "uploads")
           /\ (notDir /\ sharePath # "" /\ shareNow # "absent") =>
                 Len(resp[h].page.SharedFiles) = 1
C20_Witness ==
    \E h \in Handlers :
        /\ PageShown(h)
        /\ sharePath # "" /\ shareNow = "absent" /\ shareKind = "dir"
        /\ resp[h].page.Message = "Error accessing shared path: ENOENT"
        /\ Len(resp[h].page.UploadsFiles) = 2

\* C21: on an authorized GET /, whenever the uploads listing fails the page
\* message is the uploads listing's error with message type error, and
\* whenever the shared listing fails the page message is the shared
\* listing's error with message type error, whatever the other listing did
\* and whatever the message and type query parameters are.
C21_ListingErrorShown ==
    \A h \in Handlers :
        PageShown(h) =>
            /\ notDir =>
                  /\ resp[h].page.Message =
                       "Error accessing uploads directory: uploads path is not a directory"
                  /\ resp[h].page.MessageType = "error"
            /\ (sharePath # "" /\ shareNow = "absent") =>
                  /\ resp[h].page.Message = "Error accessing shared path: ENOENT"
                  /\ resp[h].page.MessageType = "error"

\* C27: on an authorized GET /, a non-empty message query parameter is the
\* page message, with the message type of the type parameter, or success
\* when type is absent or empty; without a message the type parameter has no
\* effect: the page message and its type are those of the listings alone.
C27_QueryMessage ==
    \A h \in Handlers :
        PageShown(h) =>
            LET page == resp[h].page
                sharedFailed == sharePath # "" /\ shareNow = "absent"
            IN  /\ req[h].message # "" =>
                      /\ page.Message = req[h].message
                      /\ page.MessageType = IF req[h].type # "" THEN req[h].type ELSE "success"
                /\ req[h].message = "" =>
                      /\ page.MessageType = IF sharedFailed \/ notDir THEN "error" ELSE ""
                      /\ (page.Message = "") = ~(sharedFailed \/ notDir)
C27_Witness ==
    \E h \in Handlers :
        /\ PageShown(h)
        /\ req[h].message = "hello" /\ req[h].type = ""
        /\ resp[h].page.Message = "hello" /\ resp[h].page.MessageType = "success"

\* What a browser shows for the text of an item: the character references
\* read back.
Unescape(text) ==
    [i \in 1..Len(text) |->
        IF text[i] = "&amp;" THEN "&" ELSE IF text[i] = "&lt;" THEN "<"
        ELSE IF text[i] = "&gt;" THEN ">" ELSE text[i]]
\* The section of the page shows every entry of the listing, in order, by
\* name and size, under its heading, and is absent for an empty listing.
Shows(section, heading, listing) ==
    /\ (section.heading = heading) = (listing # <<>>)
    /\ (section.heading = "") = (listing = <<>>)
    /\ Len(section.items) = Len(listing)
    /\ \A i \in 1..Len(listing) :
          /\ Unescape(section.items[i].text) = listing[i].Name
          /\ section.items[i].size = listing[i].Size

\* C28: the page of an authorized GET / shows every entry of the uploads
\* listing and of the shared listing by name and size in bytes, has the
\* section Uploaded Files / Shared Files exactly when that listing is not
\* empty, and always has the upload form with action /upload?key=<secretKey>.
C28_PageContents ==
    \A h \in Handlers :
        PageShown(h) =>
            /\ Shows(resp[h].html.uploads, "Uploaded Files", resp[h].page.UploadsFiles)
            /\ Shows(resp[h].html.shared, "Shared Files", resp[h].page.SharedFiles)
            /\ dirExists => Len(resp[h].html.uploads.items) = Cardinality(ChildFiles(files))
            /\ resp[h].html.form.action = "/upload?key=" \o secretKey
            /\ resp[h].html.form.method = "post"
C28_Witness ==
    \E h \in Handlers :
        /\ PageShown(h)
        /\ Len(resp[h].html.uploads.items) = 3
        /\ \E i \in 1..3 : resp[h].html.uploads.items[i].text = <<"a", "&amp;", "t">>
        /\ resp[h].html.shared = NoSection
        /\ resp[h].html.form.action = "/upload?key=k1"

\* C26: when Run is entered with --uploads-dir naming a path that exists,
\* the process ends in log.Fatalf without creating anything, and a process
\* that is not serving has registered no route and answers no request;
\* without --uploads-dir, Run goes on to serve whether or not the default
\* directory exists, and leaves it as it is.
C26_StartupAbortsOnExistingDir ==
    /\ [](phase # "serving" =>
            /\ shareKind = "none"
            /\ \A h \in Handlers : pc[h] = "idle" /\ resp[h] = NoResponse)
    /\ [][(phase = "init") =>
            /\ (uploadsDir # "" /\ (dirExists \/ notDir)) =>
                  (phase' = "fatal" /\ dirExists' = dirExists)
            /\ (uploadsDir = "") =>
                  (phase' = "serving" /\ dirExists' = dirExists /\ notDir' = notDir)]_vars
    /\ [][(phase = "fatal") => (phase' = "fatal")]_vars
C26_Witness ==
    /\ phase = "fatal"
    /\ uploadsDir = "given"
    /\ dirExists

C23_MethodNotAllowed ==
    /\ [](\A h \in Handlers :
            (Done(h, "upload") /\ HasKeyCookie(req[h], secretKey) /\ req[h].method # "POST")
            => /\ resp[h].status = 405
               /\ resp[h].body = "Method not allowed")
    /\ [][\A h \in Handlers :
            (pc[h] = "idle" /\ pc'[h] # "idle" /\ req'[h].path = UploadPath
             /\ req'[h].method # "POST")
            => (pc'[h] = "done" /\ dirExists' = dirExists /\ files' = files)]_vars
C23_Witness ==
    \E h \in Handlers :
        /\ Done(h, "upload")
        /\ HasKeyCookie(req[h], secretKey)
        /\ req[h].method = "PUT"
        /\ req[h].form.kind = "file"
        /\ resp[h].status = 405
        /\ ~dirExists

\* An authorized POST to /upload whose form carries the part file.
FilePost(r) ==
    r.path = UploadPath /\ r.method = "POST" /\ HasKeyCookie(r, secretKey) /\ r.form.kind = "file"

\* C29 as stated: with --uploads-dir the uploads directory exists once the
\* server serves; without it startup does not create the directory, and an
\* upload that created the directory does not end in failure.
C29_DirCreatedOnlyBySuccess ==
    /\ []((uploadsDir # "" /\ phase = "serving") => dirExists)
    /\ [][(phase = "init" /\ uploadsDir = "") => (dirExists' = dirExists)]_vars
    /\ [](\A h \in Handlers :
            (Done(h, "upload") /\ madeDir[h]) => resp[h].location.type = "success")
\* C29, amended: with --uploads-dir the uploads directory exists once the
\* server serves; without it startup does not create the directory, and
\* the directory is created only by os.MkdirAll of an authorized POST to
\* /upload whose form carries the part file: an upload that fails before
\* that call (authorization, method, form parsing, part retrieval, or the
\* call itself) does not create it, and one that fails later does.
C29_DirCreatedByMkdirAll ==
    /\ []((uploadsDir # "" /\ phase = "serving") => dirExists)
    /\ [][(phase = "init" /\ uploadsDir = "") => (dirExists' = dirExists)]_vars
    /\ [][(dirExists' # dirExists) =>
            \/ phase = "init" /\ uploadsDir # "" /\ phase' = "serving"
            \/ \E h \in Handlers :
                  pc[h] = "idle" /\ pc'[h] = "stat" /\ FilePost(req'[h]) /\ madeDir'[h]]_vars
    /\ [](\A h \in Handlers :
            /\ madeDir[h] => (FilePost(req[h]) /\ dirExists)
            /\ (Done(h, "upload") /\ madeDir[h]) =>
                  resp[h].location.message \in
                      {"File uploaded successfully!", "Error creating file", "Error saving file"})
C29_Witness ==
    \E h \in Handlers :
        /\ Done(h, "upload")
        /\ uploadsDir = ""
        /\ madeDir[h]
        /\ resp[h].location = Location("Error creating file", "error")
        /\ dirExists
        /\ files = EmptyDir

\* C30: a request answered 401 or 403 changes no server state: the step
\* that rejects it leaves the uploads directory and its files, the secret
\* key and the browser's cookie as they were, and the response sets no
\* cookie; a request without a valid key cookie is rejected on /upload with
\* 401 whatever its method and body, so before the body is parsed, and on
\* the root route with 403 unless it carries the key.
C30_RejectionChangesNothing ==
    /\ [][\A h \in Handlers :
            (pc[h] = "idle" /\ pc'[h] # "idle" /\ resp'[h].status \in {401, 403})
            => /\ pc'[h] = "done"
               /\ dirExists' = dirExists
               /\ files' = files
               /\ secretKey' = secretKey
               /\ jar' = jar
               /\ resp'[h].cookies = {}
               /\ ~madeDir'[h]]_vars
    /\ [][\A h \in Handlers :
            (pc[h] = "idle" /\ pc'[h] # "idle" /\ ~validateKeyCookie(req'[h]))
            => /\ pc'[h] = "done"
               /\ Route(req'[h].path) \in StrictRoutes => resp'[h].status = 401
               /\ (Route(req'[h].path) = "root" /\ ~validateKey(req'[h])) =>
                     resp'[h].status = 403]_vars
C30_Witness ==
    \E h \in Handlers :
        /\ Done(h, "upload")
        /\ Cookie(req[h], "key") # secretKey
        /\ req[h].method = "POST"
        /\ req[h].form.kind = "bad"
        /\ resp[h].status = 401
        /\ ~dirExists

\* C24: every authorized POST to /upload comes to its end in a 303 redirect
\* to the root route, with type error and a message or with type success,
\* and with type success only when the file holds the bytes sent.
C24_UploadEndsInRedirect ==
    \A h \in Handlers :
        (pc[h] # "idle" /\ req[h].path = UploadPath /\ req[h].method = "POST"
         /\ HasKeyCookie(req[h], secretKey))
        ~> ( /\ pc[h] = "done"
             /\ resp[h].status = 303
             /\ resp[h].location.path = "/"
             /\ resp[h].location.message # ""
             /\ resp[h].location.type \in {"error", "success"}
             /\ resp[h].location.type = "success" =>
                   (resolved[h] \in DOMAIN files /\ files[resolved[h]] = req[h].form.payload) )

\* The log grows by one record exactly when a handler has returned, and the
\* record carries the status the client received.
LogRecordsFaithful ==
    /\ [][\A h \in Handlers :
            (pc[h] = "done" /\ pc'[h] = "idle")
            => log'.lines = Append(log.lines,
                                   [method |-> req[h].method, path |-> req[h].path,
                                    status |-> resp[h].status])]_vars
    /\ [][(log' # log) => (\E h \in Handlers : pc[h] = "done" /\ pc'[h] = "idle")]_vars

\* C25: every request dispatched to a route produces exactly one log
\* record, written after the handler returned and carrying the status it
\* wrote (200 for the page, written without WriteHeader), for rejected and
\* for authorized requests alike.
C25_EveryRequestLogged ==
    /\ LogRecordsFaithful
    /\ \A h \in Handlers : \A n \in 0..MaxLog :
          (pc[h] # "idle" /\ Len(log.lines) = n) ~> (pc[h] = "idle" /\ Len(log.lines) = n + 1)

\* The response carries the secret key: in a Set-Cookie, in the page data or
\* in the action of the page's form.
ContainsKey(response) ==
    \/ \E c \in response.cookies : c.value = secretKey
    \/ response.page.Key = secretKey
    \/ response.html.form.action = "/upload?key=" \o secretKey
\* The request carries the secret key somewhere: as a key query value or as
\* the value of a cookie pair.
CarriesKey(r) ==
    \/ \E i \in 1..Len(r.keys) : r.keys[i] = secretKey
    \/ \E i \in 1..Len(r.cookies) : r.cookies[i].value = secretKey

\* C31: a response sets a cookie with the secret key only when the first
\* key query value of its request is the key, embeds the key in the page
\* only when the key cookie of its request is the key, and carries the key
\* nowhere when the request carries it nowhere: a client that never held
\* the key is never sent it.
C31_KeyDisclosedOnlyToHolders ==
    \A h \in Handlers :
        pc[h] = "done" =>
            /\ (\E c \in resp[h].cookies : c.value = secretKey) =>
                  (Len(req[h].keys) > 0 /\ req[h].keys[1] = secretKey)
            /\ (resp[h].page.Key = secretKey
                \/ resp[h].html.form.action = "/upload?key=" \o secretKey) =>
                  HasKeyCookie(req[h], secretKey)
            /\ ~CarriesKey(req[h]) => (~ContainsKey(resp[h]) /\ resp[h].cookies = {})
C31_Witness ==
    \E h \in Handlers :
        /\ Done(h, "root")
        /\ oldKeys # {}
        /\ Len(req[h].keys) = 2 /\ req[h].keys[1] = secretKey /\ req[h].keys[2] # secretKey
        /\ ContainsKey(resp[h])
        /\ resp[h].page.Key = ""

\* The request of a client that follows the redirect of response and sends
\* the cookies given.
FollowUp(response, cookies) ==
    Request(RootPath, "GET", cookies,
            IF response.location.path = "/" THEN <<>>
            ELSE <<CHOOSE k \in Keys : response.location.path = "/?key=" \o k>>,
            NoForm)

\* C32: the root route answers 303 only to a request whose first key query
\* value is the key, and the 303 points to / without a key parameter; the
\* request that follows it is answered with the page when it carries the
\* cookie just set and with 403 when it carries no cookie, so never with
\* another redirect.
C32_BootstrapCannotLoop ==
    \A h \in Handlers :
        (Done(h, "root") /\ resp[h].status = 303)
        => /\ validateKey(req[h])
           /\ resp[h].location.path = "/"
           /\ \E c \in resp[h].cookies :
                 RootResponse(FollowUp(resp[h], <<KeyCookie(c.value)>>)).status = 200
           /\ RootResponse(FollowUp(resp[h], <<>>)).status = 403
C32_Witness ==
    \E h \in Handlers :
        /\ Done(h, "root")
        /\ resp[h].status = 303
        /\ req[h].cookies = <<>>
        /\ RootResponse(FollowUp(resp[h], <<>>)).status = 403

\* C33: at any point of a process, a request whose key cookie is the secret
\* key is authorized on every route, whether or not the server has ever set
\* that cookie, and whether a request is rejected (401, 403) is decided by
\* that request and the secret key alone: its key cookie and, on the root
\* route, its first key query value.
C33_StatelessSessions ==
    \A h \in Handlers :
        pc[h] = "done" =>
            /\ HasKeyCookie(req[h], secretKey) => resp[h].status \notin {401, 403}
            /\ (resp[h].status \in {401, 403}) =
                  ~( \/ HasKeyCookie(req[h], secretKey)
                     \/ /\ Route(req[h].path) = "root"
                        /\ Len(req[h].keys) > 0
                        /\ req[h].keys[1] = secretKey )
C33_Witness ==
    \E h \in Handlers :
        /\ Done(h, "root")
        /\ HasKeyCookie(req[h], secretKey)
        /\ jar = NoCookie
        /\ oldKeys # {}
        /\ resp[h].status = 200

\* C35: on /upload a request without a valid key cookie is answered 401
\* whatever its method, so a 405 is sent only to requests whose key cookie
\* is the secret key.
C35_CookieBeforeMethod ==
    \A h \in Handlers :
        Done(h, "upload") =>
            /\ (~HasKeyCookie(req[h], secretKey) /\ req[h].method # "POST") =>
                  resp[h].status = 401
            /\ resp[h].status = 405 =>
                  (HasKeyCookie(req[h], secretKey) /\ req[h].method # "POST")
C35_Witness ==
    \E h \in Handlers :
        /\ Done(h, "upload")
        /\ req[h].method = "PUT"
        /\ req[h].cookies # <<>>
        /\ ~HasKeyCookie(req[h], secretKey)
        /\ resp[h].status = 401

\* The path matches one of Run's patterns: /upload, /uploads/..., and
\* /shared/... for a shared directory or /shared/<base name> for a shared
\* file.
Matched(path) ==
    \/ path.top = "upload" /\ ~path.sub
    \/ path.top = "uploads" /\ path.sub
    \/ path.top = "shared" /\ path.sub /\ shareKind = "dir"
    \/ path.top = "shared" /\ path.sub /\ shareKind = "file" /\ path.name = <<"a", ".", "t">>
\* The root of a registered subtree, named without its final slash.
SubtreeRoot(path) ==
    ~path.sub /\ (path.top = "uploads" \/ (path.top = "shared" /\ shareKind = "dir"))
\* The answer of request goroutine h follows the root policy: the page for
\* the right cookie, else the bootstrap for the right key, else 403; never
\* file bytes.
RootPolicy(h) ==
    /\ resp[h].bytes = NoBytes
    /\ resp[h].status =
          IF HasKeyCookie(req[h], secretKey) THEN 200
          ELSE IF Len(req[h].keys) > 0 /\ req[h].keys[1] = secretKey THEN 303
          ELSE 403
    /\ (resp[h].body = "page") = HasKeyCookie(req[h], secretKey)

\* C34 as stated: every path that matches none of the registered patterns
\* is answered by the root handler under the root policy and never with
\* file bytes.
C34_UnmatchedPathsGoToRoot ==
    \A h \in Handlers :
        (pc[h] = "done" /\ ~Matched(req[h].path)) => RootPolicy(h)
\* C34, amended: every path that matches none of the registered patterns
\* is answered by the root handler under the root policy and never with
\* file bytes, except the root of a registered subtree named without its
\* final slash, which ServeMux answers with 301 to the slash form whatever
\* the cookie; /shared/<other name> is under the root policy when the share
\* path is a single file or was missing at startup.
C34_UnmatchedPathsGoToRootOrSlash ==
    \A h \in Handlers :
        (pc[h] = "done" /\ ~Matched(req[h].path)) =>
            IF SubtreeRoot(req[h].path)
            THEN /\ resp[h].status = 301
                 /\ resp[h].location.path = "/" \o req[h].path.top \o "/"
                 /\ resp[h].bytes = NoBytes
                 /\ resp[h].body = "redirect"
                 /\ resp[h].cookies = {}
            ELSE RootPolicy(h)
C34_Witness ==
    \E h \in Handlers :
        /\ pc[h] = "done"
        /\ shareKind = "file"
        /\ req[h].path = Path("shared", TRUE, NameA)
        /\ HasKeyCookie(req[h], secretKey)
        /\ resp[h].status = 200
        /\ resp[h].body = "page"

\* What each failing step of an upload leaves behind: nothing for a form
\* that cannot be parsed or has no part file; no file for a destination
\* that cannot be created (the existence checks before it change nothing);
\* the destination file, under the resolved name, for a copy that fails;
\* and nothing is removed when the handler returns.
FailedUploadFrame ==
    /\ [][\A h \in Handlers :
            ( /\ pc[h] = "idle" /\ pc'[h] = "done" /\ req'[h].path = UploadPath
              /\ resp'[h].location.message \in {"parse error", "Error retrieving file"} )
            => (files' = files /\ dirExists' = dirExists)]_vars
    /\ [][\A h \in Handlers : pc[h] \in {"stat", "probe"} => files' = files]_vars
    /\ [][\A h \in Handlers :
            (pc[h] = "create" /\ pc'[h] = "done")
            => /\ resp'[h].location = Location("Error creating file", "error")
               /\ files' = files]_vars
    /\ [][\A h \in Handlers :
            (pc[h] = "copy" /\ pc'[h] = "done" /\ resp'[h].location.type = "error")
            => /\ resp'[h].location.message = "Error saving file"
               /\ DOMAIN files' = DOMAIN files
               /\ resolved[h] \in DOMAIN files'
               /\ files'[resolved[h]] = "partial"]_vars
    /\ [][\A h \in Handlers : (pc[h] = "done" /\ pc'[h] = "idle") => files' = files]_vars

\* C36: a failed authorized upload leaves the filesystem unchanged when the
\* form cannot be parsed or has no part file, at most the uploads
\* directory when the destination cannot be created, and the possibly
\* partial file under the resolved name when the copy fails; that file
\* stays, and a later upload of its name resolves to the next free suffix.
C36_FailedUploadEffects ==
    /\ FailedUploadFrame
    /\ \A h \in Handlers :
          ( /\ pc[h] = "stat"
            /\ Filename(h) \in DOMAIN files
            /\ files[Filename(h)] = "partial" )
          ~> ( /\ pc[h] = "create"
               /\ resolved[h] \notin DOMAIN files
               /\ \E k \in 0..MaxCounter :
                     /\ resolved[h] = Candidate(Filename(h), k)
                     /\ \A j \in 0..(k - 1) : Candidate(Filename(h), j) \in DOMAIN files )

====
